---- MODULE Spec2Model ----
(***************************************************************************)
(* snakeoil.data_source: one data source (in-memory data_source or         *)
(* disk-backed local_source), the file handles it hands out, and the       *)
(* transfer_data copy loop; and snakeoil.test: one TestCase.run.           *)
(*                                                                         *)
(* Text is a sequence of code points, binary data a sequence of byte       *)
(* values; str.encode()/bytes.decode() are UTF-8 over the alphabet below,  *)
(* so a conversion can fail and a round trip is not the identity by        *)
(* construction.  compatibility.is_py3k selects between the two branches   *)
(* the module carries for every version-conditional definition.            *)
(***************************************************************************)
EXTENDS Integers, Sequences, FiniteSets, TLC

\* ------------------------------------------------------------------ bounds
MaxLen == 2       \* longest content, and longest buffer a write may grow
MaxOps == 4       \* calls made in one run
MaxChunk == 2     \* largest bufsize handed to transfer_data
MaxStream == 3    \* longest stream handed to transfer_data

VARIABLES
    is_py3k,    \* compatibility.is_py3k
    kind,       \* "mem" (data_source and subclasses) or "disk" (local_source)
    srccls,     \* the class the source was constructed from
    mutable,    \* self.mutable
    encoding,   \* local_source.encoding: "none" or "utf8"
    rep0,       \* representation of the content the source was constructed with
    data,       \* data_source.data: [rep, val]
    file,       \* bytes of the file at local_source.path
    exists,     \* whether the file at local_source.path exists
    handles,    \* the handles handed out so far, by request order
    last,       \* the call just made: operation, handle, exception, result
    nops,       \* calls made so far
    limit,      \* calls the run may make
    committer,  \* handle whose commit stored the current data (0: the constructor)
    reader,     \* transfer_data: read_fsobj
    writer,     \* transfer_data: write_fsobj
    bufsize,    \* transfer_data: bufsize
    tpre,       \* transfer_data: the two streams when it was called
    test,       \* TestCase.run: skip / todo attributes, the result's class and methods
    pc,         \* TestCase.run: where the run is
    events,     \* TestCase.run: calls made on the result and on the test, in order
    ok,         \* TestCase.run: its local ok
    outcome,    \* TestCase.run: how setUp, the test method and tearDown ended
    propagated  \* TestCase.run: the exception that leaves run, if any

srcvars == <<is_py3k, kind, srccls, mutable, encoding, rep0, data, file, exists,
             handles, last, nops, limit, committer>>
tvars == <<reader, writer, bufsize, tpre>>
runvars == <<test, pc, events, ok, outcome, propagated>>
vars == <<srcvars, tvars, runvars>>

\* ------------------------------------------------------------------ values
TextChars == {97, 233}        \* "a", U+00E9
ByteVals == {97, 195, 169}    \* "a", and the two bytes of U+00E9 in UTF-8
StrVals == {97, 233}          \* py2k str, which nothing converts: "a", "\xe9"

SeqsUpTo(S, n) == UNION {[1..k -> S] : k \in 0..n}

Max(a, b) == IF a >= b THEN a ELSE b
Min(a, b) == IF a <= b THEN a ELSE b

Val(r, v) == [rep |-> r, val |-> v]

\* str.encode(): UTF-8
RECURSIVE encode(_)
encode(t) ==
    IF t = <<>> THEN <<>>
    ELSE (IF Head(t) = 233 THEN <<195, 169>> ELSE <<Head(t)>>) \o encode(Tail(t))

\* bytes.decode(): UTF-8, strict; ok = FALSE stands for UnicodeDecodeError
RECURSIVE decode(_)
decode(b) ==
    IF b = <<>> THEN [ok |-> TRUE, val |-> <<>>]
    ELSE IF Head(b) < 128
        THEN LET r == decode(Tail(b))
             IN [ok |-> r.ok, val |-> IF r.ok THEN <<Head(b)>> \o r.val ELSE <<>>]
    ELSE IF Head(b) = 195 /\ Len(b) >= 2 /\ b[2] = 169
        THEN LET r == decode(SubSeq(b, 3, Len(b)))
             IN [ok |-> r.ok, val |-> IF r.ok THEN <<233>> \o r.val ELSE <<>>]
    ELSE [ok |-> FALSE, val |-> <<>>]

\* StringIO.write at position pos: overwrite in place, growing at the end;
\* a gap between the end and a position beyond it is filled with NUL
Overwrite(buf, pos, w) ==
    IF w = <<>> THEN buf
    ELSE [i \in 1..Max(Len(buf), pos + Len(w)) |->
             IF i > pos /\ i <= pos + Len(w) THEN w[i - pos]
             ELSE IF i <= Len(buf) THEN buf[i]
             ELSE 0]

\* ------------------------------------------------------------------ data_source
Ret(v) == [exc |-> "none", val |-> v]
Raise(e, v) == [exc |-> e, val |-> v]

\* _convert_data handing out self.data whatever the mode asked for
_convert_data_raw(d, mode) == Ret(d)

\* data_source._convert_data and its overrides in text_data_source and
\* bytes_data_source; under py2k the one definition returns self.data
_convert_data(d, mode) ==
    IF ~is_py3k THEN Ret(d)
    ELSE IF srccls = "text_data_source"
        THEN IF mode # "bytes" THEN Ret(d) ELSE Ret(Val("bytes", encode(d.val)))
    ELSE IF srccls = "bytes_data_source"
        THEN IF mode = "bytes" THEN Ret(d)
             ELSE IF decode(d.val).ok THEN Ret(Val("text", decode(d.val).val))
             ELSE Raise("UnicodeDecodeError", d)
    ELSE IF mode = "bytes"
        THEN IF d.rep = "bytes" THEN Ret(d) ELSE Ret(Val("bytes", encode(d.val)))
    ELSE IF d.rep = "text" THEN Ret(d)
    ELSE IF decode(d.val).ok THEN Ret(Val("text", decode(d.val).val))
    ELSE Raise("UnicodeDecodeError", d)

\* _reset_data with the assignment to self.data lost
_reset_data_lost(d, v) == Ret(d)

\* _reset_data storing what it is handed, whatever its representation
_reset_data_unconverted(d, v) == Ret(v)

\* data_source._reset_data: the value self.data holds afterwards
_reset_data(d, v) ==
    IF ~is_py3k THEN Ret(v)
    ELSE IF d.rep = "bytes"
        THEN IF v.rep # "bytes" THEN Ret(Val("bytes", encode(v.val))) ELSE Ret(v)
    ELSE IF v.rep # "text"
        THEN IF decode(v.val).ok THEN Ret(Val("text", decode(v.val).val))
             ELSE Raise("UnicodeDecodeError", d)
    ELSE Ret(v)

\* ------------------------------------------------------------------ handles
\* a run requests at most two handles, which may be open at the same time
Handles == {1, 2}

MemClasses == {"text_wr_StringIO", "bytes_wr_StringIO",
               "text_ro_StringIO", "bytes_ro_StringIO"}
WrClasses == {"text_wr_StringIO", "bytes_wr_StringIO"}
RoClasses == {"text_ro_StringIO", "bytes_ro_StringIO"}
DiskClasses == {"open_file", "codecs_open"}

NoHandle ==
    [cls |-> "none", mode |-> "none", writable |-> FALSE, buf |-> <<>>, pos |-> 0,
     callback |-> FALSE, closed |-> FALSE, hist |-> "none", orig |-> <<>>,
     written |-> <<>>, after |-> 0, ncalls |-> 0, ncommit |-> 0]

\* the representation of what a handle of this mode reads and writes
HandleRep(mode) == IF is_py3k THEN mode ELSE "str"

\* kls.__init__ not handing the data on to base_cls.__init__
kls__init__empty(cls, mode, content) ==
    [cls |-> cls, mode |-> mode, writable |-> TRUE, buf |-> <<>>, pos |-> 0,
     callback |-> TRUE, closed |-> FALSE, hist |-> "fresh", orig |-> content,
     written |-> <<>>, after |-> committer, ncalls |-> 0,
     ncommit |-> 0]

\* kls.__init__ of text_wr_StringIO / bytes_wr_StringIO
kls__init__(cls, mode, content) ==
    [cls |-> cls, mode |-> mode, writable |-> TRUE, buf |-> content, pos |-> 0,
     callback |-> TRUE, closed |-> FALSE, hist |-> "fresh", orig |-> content,
     written |-> <<>>, after |-> committer, ncalls |-> 0,
     ncommit |-> 0]

\* text_ro_StringIO / bytes_ro_StringIO
ro_StringIO(cls, mode, content) ==
    [cls |-> cls, mode |-> mode, writable |-> FALSE, buf |-> content, pos |-> 0,
     callback |-> FALSE, closed |-> FALSE, hist |-> "fresh", orig |-> content,
     written |-> <<>>, after |-> committer, ncalls |-> 0,
     ncommit |-> 0]

\* open_file (io.open under py3k, a file subclass under py2k) and codecs.open
DiskHandle(cls, mode, writable) ==
    [cls |-> cls, mode |-> mode, writable |-> writable, buf |-> <<>>, pos |-> 0,
     callback |-> FALSE, closed |-> FALSE, hist |-> "fresh", orig |-> <<>>,
     written |-> <<>>, after |-> 0, ncalls |-> 0, ncommit |-> 0]

\* the exceptions attribute of a handle; codecs.open returns a
\* codecs.StreamReaderWriter over a builtin file, neither of which has one
has_exceptions(cls) == cls \in MemClasses \/ cls = "open_file"

exceptions(cls) ==
    IF cls \in WrClasses THEN {"MemoryError"}
    ELSE IF cls \in RoClasses THEN {"MemoryError", "TypeError"}
    ELSE IF cls = "open_file" THEN {"EnvironmentError"}
    ELSE {}

\* isinstance(exc, classes) for the exception classes the handles raise:
\* the classes an exception is an instance of.  Under py3k IOError and
\* EnvironmentError are OSError, and io.UnsupportedOperation derives from
\* OSError and ValueError; under py2k IOError and OSError derive from
\* EnvironmentError, and io.UnsupportedOperation from IOError and ValueError
Bases(e) ==
    IF e \in {"IOError", "OSError", "EnvironmentError"}
        THEN IF is_py3k THEN {"OSError", "IOError", "EnvironmentError"}
             ELSE {e, "EnvironmentError"}
    ELSE IF e = "UnsupportedOperation"
        THEN IF is_py3k
                 THEN {e, "OSError", "IOError", "EnvironmentError", "ValueError"}
             ELSE {e, "IOError", "EnvironmentError", "ValueError"}
    ELSE IF e = "UnicodeDecodeError" THEN {e, "ValueError"}
    ELSE {e}

Caught(e, classes) == Bases(e) \cap classes # {}

Free == {h \in Handles : handles[h].cls = "none"}
NextFree == IF Free = {} THEN 0 ELSE CHOOSE h \in Free : \A g \in Free : h <= g

\* what the last call was and how it ended: the handle it was made on or
\* returned, the exception it raised, what it returned (a read), whether it
\* reached the opener of local_source
Call(op, h, exc, result, opened) ==
    [op |-> op, h |-> h, exc |-> exc, result |-> result, opened |-> opened]

\* text_fileobj and bytes_fileobj are recorded with their writable argument
TextOp(writable) == IF writable THEN "text_fileobj(True)" ELSE "text_fileobj()"
BytesOp(writable) == IF writable THEN "bytes_fileobj(True)" ELSE "bytes_fileobj()"
FileobjOps == {TextOp(w) : w \in BOOLEAN} \cup {BytesOp(w) : w \in BOOLEAN}
WritableOps == {TextOp(TRUE), BytesOp(TRUE)}

\* one more call of the run
Step == nops < limit /\ nops' = nops + 1

\* a call that raised before changing anything
Raised(op, h, exc, opened) ==
    /\ last' = Call(op, h, exc, <<>>, opened)
    /\ Step
    /\ UNCHANGED <<data, file, handles, committer>>

\* a call that handed out a new handle
Opened(op, handle, opened) ==
    /\ NextFree # 0
    /\ Step
    /\ handles' = [handles EXCEPT ![NextFree] = handle]
    /\ last' = Call(op, NextFree, "none", <<>>, opened)
    /\ UNCHANGED <<data, file, committer>>

\* a request that keeps the converted content as the source's content
OpenedCaching(op, handle, converted) ==
    /\ NextFree # 0
    /\ Step
    /\ handles' = [handles EXCEPT ![NextFree] = handle]
    /\ last' = Call(op, NextFree, "none", <<>>, FALSE)
    /\ data' = converted
    /\ UNCHANGED <<file, committer>>

\* text_fileobj caching the conversion in self.data
data_source_text_fileobj_caching(writable) ==
    LET conv == _convert_data(data, "text") IN
    IF writable /\ ~mutable THEN Raised(TextOp(TRUE), 0, "TypeError", FALSE)
    ELSE IF conv.exc # "none" THEN Raised(TextOp(writable), 0, conv.exc, FALSE)
    ELSE IF writable
        THEN OpenedCaching(TextOp(TRUE),
                 kls__init__("text_wr_StringIO", "text", conv.val.val), conv.val)
    ELSE OpenedCaching(TextOp(FALSE),
             ro_StringIO("text_ro_StringIO", "text", conv.val.val), conv.val)

\* bytes_fileobj caching the conversion in self.data
data_source_bytes_fileobj_caching(writable) ==
    LET conv == _convert_data(data, "bytes") IN
    IF writable /\ ~mutable THEN Raised(BytesOp(TRUE), 0, "TypeError", FALSE)
    ELSE IF conv.exc # "none" THEN Raised(BytesOp(writable), 0, conv.exc, FALSE)
    ELSE IF writable
        THEN OpenedCaching(BytesOp(TRUE),
                 kls__init__("bytes_wr_StringIO", "bytes", conv.val.val), conv.val)
    ELSE OpenedCaching(BytesOp(FALSE),
             ro_StringIO("bytes_ro_StringIO", "bytes", conv.val.val), conv.val)

\* data_source.text_fileobj
data_source_text_fileobj(writable) ==
    LET conv == _convert_data(data, "text") IN
    IF writable /\ ~mutable THEN Raised(TextOp(TRUE), 0, "TypeError", FALSE)
    ELSE IF conv.exc # "none" THEN Raised(TextOp(writable), 0, conv.exc, FALSE)
    ELSE IF writable
        THEN Opened(TextOp(TRUE),
                    kls__init__("text_wr_StringIO", "text", conv.val.val), FALSE)
    ELSE Opened(TextOp(FALSE),
                ro_StringIO("text_ro_StringIO", "text", conv.val.val), FALSE)

\* data_source.bytes_fileobj
data_source_bytes_fileobj(writable) ==
    LET conv == _convert_data(data, "bytes") IN
    IF writable /\ ~mutable THEN Raised(BytesOp(TRUE), 0, "TypeError", FALSE)
    ELSE IF conv.exc # "none" THEN Raised(BytesOp(writable), 0, conv.exc, FALSE)
    ELSE IF writable
        THEN Opened(BytesOp(TRUE),
                    kls__init__("bytes_wr_StringIO", "bytes", conv.val.val), FALSE)
    ELSE Opened(BytesOp(FALSE),
                ro_StringIO("bytes_ro_StringIO", "bytes", conv.val.val), FALSE)

\* the opener's call: the file has to exist for "r", "r+", "rb" and "rb+"
OpenPath(op, cls, mode, writable) ==
    IF ~exists
        THEN Raised(op, 0, IF is_py3k THEN "OSError" ELSE "IOError", TRUE)
    ELSE Opened(op, DiskHandle(cls, mode, writable), TRUE)

\* local_source.text_fileobj without its check of self.mutable
local_source_text_fileobj_unchecked(writable) ==
    IF encoding # "none" /\ ~is_py3k
        THEN OpenPath(TextOp(writable), "codecs_open", "text", writable)
    ELSE OpenPath(TextOp(writable), "open_file", "text", writable)

\* local_source.text_fileobj
local_source_text_fileobj(writable) ==
    IF writable /\ ~mutable THEN Raised(TextOp(TRUE), 0, "TypeError", FALSE)
    ELSE IF encoding # "none" /\ ~is_py3k
        THEN OpenPath(TextOp(writable), "codecs_open", "text", writable)
    ELSE OpenPath(TextOp(writable), "open_file", "text", writable)

\* local_source.bytes_fileobj
local_source_bytes_fileobj(writable) ==
    IF writable
        THEN IF ~mutable THEN Raised(BytesOp(TRUE), 0, "TypeError", FALSE)
             ELSE OpenPath(BytesOp(TRUE), "open_file", "bytes", TRUE)
    ELSE OpenPath(BytesOp(FALSE), "open_file", "bytes", FALSE)

Frame ==
    UNCHANGED <<is_py3k, kind, srccls, mutable, encoding, rep0, exists, limit, tvars,
                runvars>>

text_fileobj(writable) ==
    /\ Frame
    /\ IF kind = "mem" THEN data_source_text_fileobj(writable)
       ELSE local_source_text_fileobj(writable)

bytes_fileobj(writable) ==
    /\ Frame
    /\ IF kind = "mem" THEN data_source_bytes_fileobj(writable)
       ELSE local_source_bytes_fileobj(writable)

\* ------------------------------------------------------------------ handle operations
Touch(h, hd, op, exc, result) ==
    /\ Step
    /\ handles' = [handles EXCEPT ![h] = hd]
    /\ last' = Call(op, h, exc, result, FALSE)

\* what a caller may write to a handle of this mode, one item a write
Payloads(mode) ==
    IF ~is_py3k THEN {<<c>> : c \in StrVals}
    ELSE IF mode = "text" THEN {<<c>> : c \in TextChars}
    ELSE {<<b>> : b \in ByteVals}

\* a write never grows a buffer beyond MaxLen (or beyond what it already holds)
Fits(buf, pos, w) == pos + Len(w) <= Max(Len(buf), MaxLen)

\* history of a handle: "fresh" (no operation yet), "w0" (one write, made at
\* the initial position), "r0" (one read to the end, made at the initial
\* position), "other"
Forget(hd) == [hd EXCEPT !.hist = "other", !.orig = <<>>, !.written = <<>>]

\* stringio.text_writable.write / stringio.bytes_writable.write
writable_write(h, w) ==
    LET hd == handles[h]
        new == [hd EXCEPT !.buf = Overwrite(hd.buf, hd.pos, w),
                          !.pos = hd.pos + Len(w)]
    IN /\ Fits(hd.buf, hd.pos, w)
       /\ Touch(h, IF hd.hist = "fresh"
                     THEN [new EXCEPT !.hist = "w0", !.written = w]
                   ELSE Forget(new),
                "write", "none", <<>>)
       /\ UNCHANGED <<data, file, committer>>

\* stringio.text_readonly.write / stringio.bytes_readonly.write
readonly_write(h, w) ==
    Raised("write", h, "TypeError", FALSE)

\* the bytes a write to a handle of local_source puts into the file
FileBytes(hd, w) == IF is_py3k /\ hd.mode = "text" THEN encode(w) ELSE w

\* a str of ASCII characters
Ascii(w) == \A i \in 1..Len(w) : w[i] < 128

\* text a caller may write whatever the platform's default encoding is:
\* ASCII, when a py3k text handle was opened without an encoding
FilePayload(hd, w) ==
    IF is_py3k /\ hd.mode = "text" /\ encoding = "none" THEN Ascii(w) ELSE TRUE

\* write on a handle of local_source.  The StreamWriter of codecs.open
\* encodes first, and encoding a py2k str decodes it as ASCII; mode "r"/"rb"
\* refuses the write; mode "r+"/"rb+" keeps it in the handle's buffer
\* (buffering_window is larger than any file here), from the position 0 the
\* handle was opened at
file_write(h, w) ==
    LET hd == handles[h]
        b == FileBytes(hd, w)
    IN IF ~is_py3k /\ hd.cls = "codecs_open" /\ ~Ascii(w)
         THEN Raised("write", h, "UnicodeDecodeError", FALSE)
       ELSE IF ~hd.writable
         THEN Raised("write", h,
                     IF is_py3k THEN "UnsupportedOperation" ELSE "IOError", FALSE)
       ELSE /\ FilePayload(hd, w)
            /\ Fits(file, hd.pos, b)
            /\ Touch(h, Forget([hd EXCEPT !.buf = hd.buf \o b,
                                          !.pos = hd.pos + Len(b)]),
                     "write", "none", <<>>)
            /\ UNCHANGED <<data, file, committer>>

write(h, w) ==
    /\ Frame
    /\ handles[h].cls # "none" /\ ~handles[h].closed
    /\ w \in Payloads(handles[h].mode)
    /\ IF handles[h].cls \in WrClasses THEN writable_write(h, w)
       ELSE IF handles[h].cls \in RoClasses THEN readonly_write(h, w)
       ELSE file_write(h, w)

\* read() of an in-memory handle: everything from the position to the end
read(h) ==
    LET hd == handles[h]
        new == [hd EXCEPT !.pos = Len(hd.buf)]
    IN /\ Frame
       /\ hd.cls \in MemClasses /\ ~hd.closed
       /\ Touch(h, IF hd.hist = "fresh"
                     THEN [new EXCEPT !.hist = "r0", !.orig = <<>>]
                   ELSE Forget(new),
                "read", "none", SubSeq(hd.buf, hd.pos + 1, Len(hd.buf)))
       /\ UNCHANGED <<data, file, committer>>

\* seek(p) of an in-memory handle, to a position inside the buffer
seek(h, p) ==
    LET hd == handles[h]
    IN /\ Frame
       /\ hd.cls \in MemClasses /\ ~hd.closed
       /\ p \in 0..Len(hd.buf)
       /\ Touch(h, Forget([hd EXCEPT !.pos = p]), "seek", "none", <<>>)
       /\ UNCHANGED <<data, file, committer>>

\* kls.close reading back without the seek(0): what follows the position
readback_rest(hd) == SubSeq(hd.buf, hd.pos + 1, Len(hd.buf))

\* truncate() of a writable in-memory handle: the buffer is cut at the
\* position, which stays
truncate(h) ==
    LET hd == handles[h]
    IN /\ Frame
       /\ hd.cls \in WrClasses /\ ~hd.closed
       /\ Touch(h, Forget([hd EXCEPT !.buf = SubSeq(hd.buf, 1, Min(hd.pos, Len(hd.buf)))]),
                "truncate", "none", <<>>)
       /\ UNCHANGED <<data, file, committer>>

\* self.seek(0); self.read() in kls.close: the content handed to the callback
readback(hd) == hd.buf

\* base_cls.close: the buffer is gone
base_close(hd) == [hd EXCEPT !.closed = TRUE, !.buf = <<>>, !.pos = 0]

\* kls.close of a closed handle: self.flush() raises ValueError on a closed
\* stream, except that of io.StringIO (text, py3k), which returns; there
\* _callback is None and base_cls.close does nothing a second time
close_closed(h) ==
    IF is_py3k /\ handles[h].mode = "text"
        THEN /\ Touch(h, handles[h], "close", "none", <<>>)
             /\ UNCHANGED <<data, file, committer>>
    ELSE Raised("close", h, "ValueError", FALSE)

\* kls.close keeping self._callback after the commit
kls_close_rearmed(h) ==
    LET hd == handles[h]
        res == _reset_data(data, Val(HandleRep(hd.mode), readback(hd)))
        called == [hd EXCEPT !.ncalls = hd.ncalls + 1, !.pos = Len(hd.buf)]
    IN IF hd.closed
         THEN close_closed(h)
       ELSE IF res.exc # "none"
         THEN /\ Touch(h, called, "close", res.exc, <<>>)
              /\ UNCHANGED <<data, file, committer>>
       ELSE /\ data' = res.val
            /\ committer' = h
            /\ Touch(h, base_close([called EXCEPT !.ncommit = hd.ncommit + 1]),
                     "close", "none", <<>>)
            /\ UNCHANGED file

\* kls.close over one buffer shared by the writable handles of the source:
\* a commit shows in the handles that are still open
kls_close_shared(h) ==
    LET hd == handles[h]
        res == _reset_data(data, Val(HandleRep(hd.mode), readback(hd)))
        called == [hd EXCEPT !.ncalls = hd.ncalls + 1, !.pos = Len(hd.buf)]
        done == base_close([called EXCEPT !.callback = FALSE,
                                          !.ncommit = hd.ncommit + 1])
    IN IF hd.closed
         THEN close_closed(h)
       ELSE IF res.exc # "none"
         THEN /\ Touch(h, called, "close", res.exc, <<>>)
              /\ UNCHANGED <<data, file, committer>>
       ELSE /\ data' = res.val
            /\ committer' = h
            /\ Step
            /\ handles' = [g \in Handles |->
                               IF g = h THEN done
                               ELSE IF handles[g].cls \in WrClasses /\ ~handles[g].closed
                                   THEN [handles[g] EXCEPT !.buf = readback(hd)]
                               ELSE handles[g]]
            /\ last' = Call("close", h, "none", <<>>, FALSE)
            /\ UNCHANGED file

\* kls.close giving up self._callback before it calls it
kls_close_disarmed(h) ==
    LET hd == handles[h]
        res == _reset_data(data, Val(HandleRep(hd.mode), readback(hd)))
        called == [hd EXCEPT !.ncalls = hd.ncalls + 1, !.pos = Len(hd.buf),
                             !.callback = FALSE]
    IN IF hd.closed
         THEN close_closed(h)
       ELSE IF ~hd.callback
         THEN /\ Touch(h, base_close(hd), "close", "none", <<>>)
              /\ UNCHANGED <<data, file, committer>>
       ELSE IF res.exc # "none"
         THEN /\ Touch(h, called, "close", res.exc, <<>>)
              /\ UNCHANGED <<data, file, committer>>
       ELSE /\ data' = res.val
            /\ committer' = h
            /\ Touch(h, base_close([called EXCEPT !.ncommit = hd.ncommit + 1]),
                     "close", "none", <<>>)
            /\ UNCHANGED file

\* kls.close of text_wr_StringIO / bytes_wr_StringIO
kls_close(h) ==
    LET hd == handles[h]
        res == _reset_data(data, Val(HandleRep(hd.mode), readback(hd)))
        called == [hd EXCEPT !.ncalls = hd.ncalls + 1, !.pos = Len(hd.buf)]
    IN IF hd.closed
         THEN close_closed(h)
       ELSE IF ~hd.callback
         THEN /\ Touch(h, base_close(hd), "close", "none", <<>>)
              /\ UNCHANGED <<data, file, committer>>
       ELSE IF res.exc # "none"
         THEN /\ Touch(h, called, "close", res.exc, <<>>)
              /\ UNCHANGED <<data, file, committer>>
       ELSE /\ data' = res.val
            /\ committer' = h
            /\ Touch(h, base_close([called EXCEPT !.callback = FALSE,
                                                  !.ncommit = hd.ncommit + 1]),
                     "close", "none", <<>>)
            /\ UNCHANGED file

\* close of the read-only in-memory handles and of the handles of
\* local_source; the close of a writable handle of local_source flushes what
\* it buffered into the file, over what is there
plain_close(h) ==
    /\ Touch(h, base_close(handles[h]), "close", "none", <<>>)
    /\ file' = (IF handles[h].cls \in DiskClasses /\ handles[h].writable
                   THEN Overwrite(file, 0, handles[h].buf)
                 ELSE file)
    /\ UNCHANGED <<data, committer>>

close(h) ==
    /\ Frame
    /\ handles[h].cls # "none"
    /\ IF handles[h].cls \in WrClasses THEN kls_close(h) ELSE plain_close(h)

\* ------------------------------------------------------------------ construction
\* the names a caller constructs an in-memory source by
SourceNames == {"data_source", "text_data_source", "bytes_data_source"}

\* what a caller may hand to a constructor: text, bytes, or something that
\* is neither (an int, None); under py2k text is a str or a unicode
Contents ==
    IF is_py3k
        THEN {Val("text", v) : v \in SeqsUpTo(TextChars, MaxLen)}
             \cup {Val("bytes", v) : v \in SeqsUpTo(ByteVals, MaxLen)}
             \cup {Val("other", <<>>)}
    ELSE {Val("str", v) : v \in SeqsUpTo(StrVals, MaxLen)}
         \cup {Val("unicode", v) : v \in SeqsUpTo(TextChars, MaxLen)}
         \cup {Val("other", <<>>)}

\* the constructor call just made: the name called, the type of the data
\* argument, the exception raised
Construction(name, content, exc) ==
    [op |-> name, h |-> 0, exc |-> exc, result |-> <<>>, opened |-> FALSE,
     arg |-> content.rep]

\* a constructor that raised: no source
Rejected(name, content) ==
    /\ last' = Construction(name, content, "TypeError")
    /\ UNCHANGED <<kind, srccls, data, rep0, mutable>>

\* data_source.__init__: self.data = data; self.mutable = mutable.  Under
\* py2k the three names are the one class data_source
Accepted(name, content, mut) ==
    /\ last' = Construction(name, content, "none")
    /\ kind' = "mem"
    /\ srccls' = (IF is_py3k THEN name ELSE "data_source")
    /\ data' = content
    /\ rep0' = content.rep
    /\ mutable' = mut

\* the constructors without their isinstance checks
data_source__init__unchecked(name, content, mut) ==
    /\ kind = "none"
    /\ content \in Contents
    /\ Step
    /\ Accepted(name, content, mut)
    /\ UNCHANGED <<is_py3k, encoding, file, exists, handles, limit, committer,
                   tvars, runvars>>

\* data_source.__init__, text_data_source.__init__, bytes_data_source.__init__
data_source__init__(name, content, mut) ==
    /\ kind = "none"
    /\ content \in Contents
    /\ Step
    /\ IF is_py3k /\ name = "text_data_source" /\ content.rep # "text"
         THEN Rejected(name, content)
       ELSE IF is_py3k /\ name = "bytes_data_source" /\ content.rep # "bytes"
         THEN Rejected(name, content)
       ELSE Accepted(name, content, mut)
    /\ UNCHANGED <<is_py3k, encoding, file, exists, handles, limit, committer,
                   tvars, runvars>>

\* ------------------------------------------------------------------ transfer_data
Stream(buf, pos) == [buf |-> buf, pos |-> pos]

\* read_fsobj.read(n)
stream_read(s, n) == SubSeq(s.buf, s.pos + 1, Min(Len(s.buf), s.pos + n))

\* transfer_data with its while an if: one chunk is copied
transfer_once(r, w, n) ==
    LET chunk == stream_read(r, n)
    IN IF chunk = <<>> THEN [reader |-> r, writer |-> w]
       ELSE [reader |-> Stream(r.buf, r.pos + Len(chunk)),
             writer |-> Stream(Overwrite(w.buf, w.pos, chunk), w.pos + Len(chunk))]

\* transfer_data: the loop, from the two streams to the two streams
RECURSIVE transfer_loop(_, _, _)
transfer_loop(r, w, n) ==
    LET chunk == stream_read(r, n)
    IN IF chunk = <<>> THEN [reader |-> r, writer |-> w]
       ELSE transfer_loop(Stream(r.buf, r.pos + Len(chunk)),
                          Stream(Overwrite(w.buf, w.pos, chunk), w.pos + Len(chunk)),
                          n)

transfer_data ==
    LET out == transfer_loop(reader, writer, bufsize)
    IN /\ tpre = <<>>
       /\ tpre' = <<reader, writer>>
       /\ reader' = out.reader
       /\ writer' = out.writer
       /\ UNCHANGED <<bufsize, srcvars, runvars>>

\* ------------------------------------------------------------------ TestCase.run
\* a skip attribute is "none" (no attribute) or a reason string; a todo
\* attribute is "none", "str" (a reason string) or the name of the exception
\* class of a tuple (ExceptionClass, reason)
SkipAttrs == {"none", "reason"}
TodoAttrs == {"none", "str", "AssertionError", "ValueError", "LookupError"}

\* how setUp and tearDown may end, and how the test method may end
FixtureOutcomes == {"ok", "ValueError", "KeyboardInterrupt"}
BodyOutcomes == {"ok", "AssertionError", "ValueError", "KeyError", "SkipTest",
                 "KeyboardInterrupt"}

\* run looking for the skip attribute on the method only
skip_of_method == test.mskip

\* getattr(testMethod, 'skip', getattr(self, 'skip', None))
skip == IF test.mskip # "none" THEN test.mskip ELSE test.cskip

\* getattr(testMethod, 'todo', getattr(self, 'todo', None))
todo == IF test.mtodo # "none" THEN test.mtodo ELSE test.ctodo

\* Todo.parse: a string gives errors=None (any), a tuple the classes it lists
Todo_parse(t) ==
    IF t = "str" THEN [any |-> TRUE, errors |-> {}]
    ELSE [any |-> FALSE, errors |-> {t}]

\* Todo.expected: errors is None, or the exception class is one of them
Todo_expected(td, exception) ==
    IF td.any THEN TRUE ELSE exception \in td.errors

\* _tryResultCall(result, methodname, *args): the call is made if the
\* result has the method: the events afterwards, and what the call raises.
\* addUnexpectedSuccess is called with (self, todo), which the method of a
\* unittest.TestResult, taking the test alone, answers with TypeError;
\* addExpectedFailure is called with the arguments the result's module takes
_tryResultCall(ev, methodname) ==
    IF ~test[methodname] THEN [ev |-> ev, exc |-> "none"]
    ELSE IF methodname = "addUnexpectedSuccess" /\ test.stdlib
        THEN [ev |-> Append(ev, methodname), exc |-> "TypeError"]
    ELSE [ev |-> Append(ev, methodname), exc |-> "none"]

\* result.startTest(self), then the skip attribute: the test is reported
\* and run returns
run_startTest ==
    /\ pc = "idle"
    /\ IF skip # "none"
         THEN /\ events' = (IF test.addSkip
                               THEN _tryResultCall(<<"startTest">>, "addSkip").ev
                             ELSE <<"startTest", "addSuccess">>)
              /\ pc' = "finally"
       ELSE /\ events' = <<"startTest">>
            /\ pc' = "setUp"
    /\ UNCHANGED <<test, ok, outcome, propagated, srcvars, tvars>>

\* self.setUp() and its except clauses
run_setUp(out) ==
    /\ pc = "setUp"
    /\ outcome' = [outcome EXCEPT !.setUp = out]
    /\ IF out = "KeyboardInterrupt"
         THEN /\ events' = Append(events, "setUp")
              /\ propagated' = out
              /\ pc' = "finally"
       ELSE IF out # "ok"
         THEN /\ events' = events \o <<"setUp", "addError">>
              /\ pc' = "finally"
              /\ UNCHANGED propagated
       ELSE /\ events' = Append(events, "setUp")
            /\ pc' = "body"
            /\ UNCHANGED propagated
    /\ ok' = FALSE
    /\ UNCHANGED <<test, srcvars, tvars>>

\* what the except clauses of the test method report, after the events ev
BodyReport(ev, out) ==
    IF out = "ok" THEN ev
    ELSE IF out = "AssertionError"
        THEN IF todo # "none" /\ Todo_expected(Todo_parse(todo), out)
                 THEN _tryResultCall(ev, "addExpectedFailure").ev
             ELSE Append(ev, "addFailure")
    ELSE IF out = "SkipTest" THEN _tryResultCall(ev, "addSkip").ev
    ELSE IF todo # "none" /\ Todo_expected(Todo_parse(todo), out)
        THEN _tryResultCall(ev, "addExpectedFailure").ev
    ELSE Append(ev, "addError")

\* run leaving for its finally as soon as the test method raises
AfterBody_abort(out) == IF out = "ok" THEN "tearDown" ELSE "finally"

\* where run goes on after the test method: KeyboardInterrupt is re-raised,
\* everything else is followed by tearDown
AfterBody(out) == IF out = "KeyboardInterrupt" THEN "finally" ELSE "tearDown"

\* self.forced_extra_frame(testMethod) and its except clauses
run_body(out) ==
    /\ pc = "body"
    /\ outcome' = [outcome EXCEPT !.body = out]
    /\ ok' = (out = "ok")
    /\ IF out = "KeyboardInterrupt"
         THEN /\ events' = Append(events, "test")
              /\ propagated' = out
       ELSE /\ events' = BodyReport(Append(events, "test"), out)
            /\ UNCHANGED propagated
    /\ pc' = AfterBody(out)
    /\ UNCHANGED <<test, srcvars, tvars>>

\* what run reports after tearDown returned: if ok
FinalReport(ev) ==
    IF ~ok THEN [ev |-> ev, exc |-> "none"]
    ELSE IF todo # "none" THEN _tryResultCall(ev, "addUnexpectedSuccess")
    ELSE [ev |-> Append(ev, "addSuccess"), exc |-> "none"]

\* self.tearDown(), its except clauses, and the report of a success
run_tearDown(out) ==
    /\ pc = "tearDown"
    /\ outcome' = [outcome EXCEPT !.tearDown = out]
    /\ IF out = "KeyboardInterrupt"
         THEN /\ events' = Append(events, "tearDown")
              /\ propagated' = out
              /\ UNCHANGED ok
       ELSE IF out # "ok"
         THEN /\ events' = events \o <<"tearDown", "addError">>
              /\ ok' = FALSE
              /\ UNCHANGED propagated
       ELSE /\ events' = FinalReport(Append(events, "tearDown")).ev
            /\ propagated' = FinalReport(Append(events, "tearDown")).exc
            /\ UNCHANGED ok
    /\ pc' = "finally"
    /\ UNCHANGED <<test, srcvars, tvars>>

\* finally: result.stopTest(self)
run_stopTest ==
    /\ pc = "finally"
    /\ events' = Append(events, "stopTest")
    /\ pc' = "done"
    /\ UNCHANGED <<test, ok, outcome, propagated, srcvars, tvars>>

\* ------------------------------------------------------------------ specifications
NoCall == Call("none", 0, "none", <<>>, FALSE)
NoData == Val("none", <<>>)

MemInit ==
    /\ kind = "mem"
    /\ srccls \in (IF is_py3k
                     THEN {"data_source", "text_data_source", "bytes_data_source"}
                   ELSE {"data_source"})
    /\ data \in (IF ~is_py3k THEN {Val("str", v) : v \in SeqsUpTo(StrVals, MaxLen)}
                 ELSE IF srccls = "text_data_source"
                   THEN {Val("text", v) : v \in SeqsUpTo(TextChars, MaxLen)}
                 ELSE IF srccls = "bytes_data_source"
                   THEN {Val("bytes", v) : v \in SeqsUpTo(ByteVals, MaxLen)}
                 ELSE {Val("text", v) : v \in SeqsUpTo(TextChars, MaxLen)}
                      \cup {Val("bytes", v) : v \in SeqsUpTo(ByteVals, MaxLen)})
    /\ encoding = "none" /\ file = <<>> /\ exists = FALSE

DiskInit ==
    /\ kind = "disk"
    /\ srccls = "local_source"
    /\ data = NoData
    /\ encoding \in {"none", "utf8"}
    /\ exists \in BOOLEAN
    /\ file \in (IF ~exists THEN {<<>>}
                 ELSE IF is_py3k THEN SeqsUpTo(ByteVals, MaxLen)
                 ELSE SeqsUpTo(StrVals, MaxLen))

NoTransfer ==
    /\ reader = Stream(<<>>, 0) /\ writer = Stream(<<>>, 0)
    /\ bufsize = 1 /\ tpre = <<>>

\* TestCase.run not called
NoRun ==
    /\ test = [mskip |-> "none", cskip |-> "none", mtodo |-> "none", ctodo |-> "none",
               stdlib |-> FALSE, addSkip |-> FALSE, addExpectedFailure |-> FALSE,
               addUnexpectedSuccess |-> FALSE]
    /\ pc = "idle"
    /\ events = <<>>
    /\ ok = FALSE
    /\ outcome = [setUp |-> "none", body |-> "none", tearDown |-> "none"]
    /\ propagated = "none"

Constructed ==
    /\ rep0 = data.rep
    /\ handles = [h \in Handles |-> NoHandle]
    /\ last = NoCall
    /\ nops = 0
    /\ committer = 0
    /\ NoTransfer
    /\ NoRun

\* every source, MaxOps calls of any kind
Init ==
    /\ is_py3k \in BOOLEAN
    /\ mutable \in BOOLEAN
    /\ (MemInit \/ DiskInit)
    /\ limit = MaxOps
    /\ Constructed

Next ==
    \/ \E wr \in BOOLEAN : text_fileobj(wr)
    \/ \E wr \in BOOLEAN : bytes_fileobj(wr)
    \/ \E h \in Handles : \E w \in SeqsUpTo(TextChars \cup ByteVals, 1) : write(h, w)
    \/ \E h \in Handles : read(h)
    \/ \E h \in Handles : \E p \in 0..(2 * MaxLen) : seek(h, p)
    \/ \E h \in Handles : truncate(h)
    \/ \E h \in Handles : close(h)

Spec == Init /\ [][Next]_vars

\* the mutable in-memory sources through their text handles, one call further
TextInit ==
    /\ is_py3k \in BOOLEAN
    /\ mutable = TRUE
    /\ MemInit
    /\ limit = MaxOps + 1
    /\ Constructed

TextNext ==
    \/ \E wr \in BOOLEAN : text_fileobj(wr)
    \/ \E h \in Handles : \E w \in SeqsUpTo(TextChars \cup ByteVals, 1) : write(h, w)
    \/ \E h \in Handles : read(h)
    \/ \E h \in Handles : close(h)

TextSpec == TextInit /\ [][TextNext]_vars

\* transfer_data on its own: any two streams over the text alphabet, the
\* reader and the writer each at any position inside its content
TransferInit ==
    /\ is_py3k = TRUE /\ mutable = FALSE
    /\ kind = "mem" /\ srccls = "data_source" /\ data = Val("text", <<>>)
    /\ encoding = "none" /\ file = <<>> /\ exists = FALSE
    /\ rep0 = "text"
    /\ handles = [h \in Handles |-> NoHandle]
    /\ last = NoCall /\ nops = 0 /\ limit = 0 /\ committer = 0
    /\ \E rb \in SeqsUpTo(TextChars, MaxStream), wb \in SeqsUpTo(TextChars, MaxStream) :
        \E rp \in 0..Len(rb), wp \in 0..Len(wb) :
            /\ reader = Stream(rb, rp)
            /\ writer = Stream(wb, wp)
    /\ bufsize \in 1..MaxChunk
    /\ tpre = <<>>
    /\ NoRun

TransferNext == transfer_data

TransferSpec == TransferInit /\ [][TransferNext]_vars

\* no source constructed yet
NoSource ==
    /\ kind = "none" /\ srccls = "none" /\ mutable = FALSE
    /\ data = NoData /\ rep0 = "none"
    /\ encoding = "none" /\ file = <<>> /\ exists = FALSE
    /\ handles = [h \in Handles |-> NoHandle]
    /\ last = NoCall /\ nops = 0 /\ committer = 0

\* the constructors of the in-memory sources: one call, any argument
ConstructInit ==
    /\ is_py3k \in BOOLEAN
    /\ NoSource
    /\ limit = 1
    /\ NoTransfer
    /\ NoRun

ConstructNext ==
    \E name \in SourceNames :
        \E content \in {Val(r, v) : r \in {"text", "bytes", "str", "unicode", "other"},
                                    v \in SeqsUpTo(TextChars \cup ByteVals, MaxLen)} :
            \E mut \in BOOLEAN : data_source__init__(name, content, mut)

ConstructSpec == ConstructInit /\ [][ConstructNext]_vars

\* the results a test may be run with: a unittest.TestResult, which has the
\* three optional methods or, before python 2.7, none of them; or an object
\* of another module with any of them, taking the arguments run hands them
Results ==
    {r \in [stdlib : BOOLEAN, addSkip : BOOLEAN, addExpectedFailure : BOOLEAN,
            addUnexpectedSuccess : BOOLEAN] :
        r.stdlib => (r.addSkip = r.addExpectedFailure
                     /\ r.addSkip = r.addUnexpectedSuccess)}

\* one TestCase.run: any skip and todo attributes on the method and on the
\* TestCase, any result
RunInit ==
    /\ is_py3k = FALSE
    /\ NoSource
    /\ limit = 0
    /\ NoTransfer
    /\ \E r \in Results :
           test \in [mskip : SkipAttrs, cskip : SkipAttrs,
                     mtodo : TodoAttrs, ctodo : {"none", "str"},
                     stdlib : {r.stdlib}, addSkip : {r.addSkip},
                     addExpectedFailure : {r.addExpectedFailure},
                     addUnexpectedSuccess : {r.addUnexpectedSuccess}]
    /\ pc = "idle"
    /\ events = <<>>
    /\ ok = FALSE
    /\ outcome = [setUp |-> "none", body |-> "none", tearDown |-> "none"]
    /\ propagated = "none"

RunNext ==
    \/ run_startTest
    \/ \E out \in FixtureOutcomes : run_setUp(out)
    \/ \E out \in BodyOutcomes : run_body(out)
    \/ \E out \in FixtureOutcomes : run_tearDown(out)
    \/ run_stopTest

RunSpec == RunInit /\ [][RunNext]_vars

\* ------------------------------------------------------------------ properties
\* a step of the run is a call: nops counts them
Called == nops' # nops

\* C1: a request for a writable handle on a source constructed with
\* mutable=False, in-memory or disk-backed, text or bytes, raises TypeError
\* before storage is touched: no handle is created, the opener is not
\* reached, and the content of the source is what it was.
C1_ImmutableWritableRaises ==
    [][(Called /\ ~mutable /\ last'.op \in WritableOps) =>
          /\ last'.exc = "TypeError"
          /\ last'.h = 0
          /\ ~last'.opened
          /\ handles' = handles
          /\ data' = data
          /\ file' = file]_vars

\* the request was made on a local_source whose file is missing: the opener
\* would have raised an environment error had it been reached
C1_Witness ==
    /\ ~mutable /\ kind = "disk" /\ ~exists
    /\ last.op \in WritableOps
    /\ last.exc = "TypeError"

\* what the source holds, as a handle of this mode reads it
Holds(mode) == _convert_data(data, mode)

\* C2: on a mutable in-memory source holding C, a writable handle (text or
\* bytes) that is written W at its initial position and closed leaves the
\* source holding W followed by C[len(W):], for len(W) <= len(C): the handle
\* was pre-loaded with all of C and overwritten in place.
C2_OverwriteInPlace ==
    \A h \in Handles :
        LET hd == handles[h]
        IN (/\ hd.cls \in WrClasses
            /\ hd.hist = "w0" /\ hd.closed /\ committer = h
            /\ Len(hd.written) <= Len(hd.orig)) =>
               /\ Holds(hd.mode).exc = "none"
               /\ Holds(hd.mode).val.val =
                      hd.written \o SubSeq(hd.orig, Len(hd.written) + 1, Len(hd.orig))

\* a write that changed the first item of a longer content was committed
C2_Witness ==
    \E h \in Handles :
        LET hd == handles[h]
        IN /\ hd.cls \in WrClasses
           /\ hd.hist = "w0" /\ hd.closed /\ committer = h
           /\ Len(hd.written) < Len(hd.orig)
           /\ hd.written # SubSeq(hd.orig, 1, Len(hd.written))

\* handle h, a read-only text handle requested after writable text handle g
\* committed its one write, has just been read from its initial position
RoundTrip(h, g) ==
    /\ last.op = "read" /\ last.h = h /\ last.exc = "none"
    /\ handles[h].cls = "text_ro_StringIO"
    /\ handles[h].hist = "r0"
    /\ g = handles[h].after
    /\ g # 0
    /\ handles[g].cls = "text_wr_StringIO"
    /\ handles[g].hist = "w0"

\* C3, as claimed: text T written to a writable text handle of a mutable
\* in-memory source and committed by close is exactly what a fresh read-only
\* text handle reads.
C3_RoundTripExact ==
    \A h \in Handles : \A g \in Handles :
        RoundTrip(h, g) => last.result = handles[g].written

\* C3, amended: the fresh read-only text handle reads T followed by the part
\* of the text the source held before that lies beyond len(T).
C3_RoundTripOverwrites ==
    \A h \in Handles : \A g \in Handles :
        RoundTrip(h, g) =>
            last.result = Overwrite(handles[g].orig, 0, handles[g].written)

\* the round trip was made on a source holding more text than was written
C3_Witness ==
    \E h \in Handles : \E g \in Handles :
        /\ RoundTrip(h, g)
        /\ Len(handles[g].orig) > Len(handles[g].written)

\* C4: the content of an in-memory source changes only in the close of a
\* writable handle that still holds its callback; requesting a handle,
\* writing, seeking and reading leave it as it is, so a handle that is never
\* closed never changes it.
C4_ContentChangesOnlyInClose ==
    [][data' # data =>
          /\ last'.op = "close" /\ last'.exc = "none"
          /\ last'.h \in Handles
          /\ handles[last'.h].cls \in WrClasses
          /\ handles[last'.h].callback
          /\ ~handles[last'.h].closed
          /\ handles'[last'.h].closed]_vars

\* a writable handle was written, sought or read while the source still
\* holds what it held when the handle was requested
C4_Witness ==
    \E h \in Handles :
        /\ handles[h].cls \in WrClasses
        /\ ~handles[h].closed
        /\ last.h = h /\ last.op \in {"write", "seek", "read"}
        /\ handles[h].buf # Holds(handles[h].mode).val.val
        /\ committer = handles[h].after

\* C5, as claimed: over any sequence of operations on a writable in-memory
\* handle, repeated close calls included, the commit callback is invoked at
\* most once.
C5_InvokedAtMostOnce ==
    \A h \in Handles : handles[h].ncalls <= 1

\* C5, amended: the callback completes at most once; the handle holds it
\* until the close in which it completes, and that close is the one that
\* closes the handle.
C5_CommitsAtMostOnce ==
    \A h \in Handles :
        LET hd == handles[h]
        IN hd.cls \in WrClasses =>
               /\ hd.ncommit <= 1
               /\ hd.ncommit <= hd.ncalls
               /\ (hd.ncommit = 1) = ~hd.callback
               /\ hd.closed = ~hd.callback

\* close was called again on a handle that had committed
C5_Witness ==
    \E h \in Handles :
        /\ handles[h].cls \in WrClasses
        /\ handles[h].ncommit = 1
        /\ last.op = "close" /\ last.h = h /\ last.exc = "ValueError"

\* C6: the content of an in-memory source keeps the representation it was
\* constructed with, through commits of text handles and of bytes handles.
C6_RepresentationKept ==
    kind = "mem" => data.rep = rep0

\* a handle of the other representation committed a non-empty content
C6_Witness ==
    /\ kind = "mem" /\ is_py3k
    /\ committer # 0
    /\ handles[committer].mode # rep0
    /\ data.val # <<>>

\* C7: requesting a handle from an in-memory source, read-only or writable,
\* text or bytes, with or without a conversion, and reading a handle to the
\* end leave the content of the source and its representation as they were.
C7_RequestNeverMutates ==
    [][(Called /\ kind = "mem" /\ last'.op \in FileobjOps \cup {"read"}) =>
          data' = data]_vars

\* a handle of the other representation was requested and read to the end
C7_Witness ==
    /\ kind = "mem" /\ is_py3k
    /\ last.op = "read" /\ last.h \in Handles
    /\ handles[last.h].mode # rep0
    /\ last.result # <<>>
    /\ Len(last.result) # Len(data.val)

\* C8: transfer_data leaves the reader exhausted and the writer advanced by
\* the N items that remained in the reader; the region it wrote holds those
\* N items in order, and what the writer held before its starting offset is
\* what it held before the call.
C8_TransferCopiesRemainder ==
    tpre # <<>> =>
        LET r0 == tpre[1]
            w0 == tpre[2]
            n == Len(r0.buf) - r0.pos
        IN /\ stream_read(reader, bufsize) = <<>>
           /\ reader.buf = r0.buf
           /\ writer.pos = w0.pos + n
           /\ SubSeq(writer.buf, w0.pos + 1, w0.pos + n) =
                  SubSeq(r0.buf, r0.pos + 1, Len(r0.buf))
           /\ SubSeq(writer.buf, 1, w0.pos) = SubSeq(w0.buf, 1, w0.pos)

\* more than one chunk was copied, from inside the reader to inside the writer
C8_Witness ==
    /\ tpre # <<>>
    /\ tpre[1].pos > 0 /\ tpre[2].pos > 0
    /\ Len(tpre[1].buf) - tpre[1].pos > bufsize
    /\ writer.buf # tpre[2].buf

\* C9: every handle text_fileobj or bytes_fileobj returns, whatever the
\* source, carries an exceptions attribute.
C9_EveryHandleDeclaresExceptions ==
    \A h \in Handles :
        handles[h].cls # "none" => has_exceptions(handles[h].cls)

\* C10: a write on a handle obtained with writable=False raises an exception
\* of the handle's own exceptions attribute and leaves the content of the
\* source unchanged.
C10_ReadOnlyWriteRaisesDeclared ==
    [][(Called /\ last'.op = "write" /\ ~handles[last'.h].writable) =>
          /\ last'.exc # "none"
          /\ has_exceptions(handles[last'.h].cls)
          /\ Caught(last'.exc, exceptions(handles[last'.h].cls))
          /\ data' = data
          /\ file' = file]_vars

\* handle h, requested from a source that still holds what it was
\* constructed with, has just been read from its initial position
ReadsConstructed(h) ==
    /\ kind = "mem" /\ committer = 0
    /\ last.op = "read" /\ last.h = h /\ last.exc = "none"
    /\ handles[h].hist = "r0"
    /\ handles[h].after = 0

\* C11: an in-memory source constructed from text T reads as the encoding of
\* T through a bytes handle and as T through a text handle; one constructed
\* from bytes B reads as B through a bytes handle and as the decoding of B
\* through a text handle.  A py2k str is its own encoding and decoding.
C11_CrossRepresentationRead ==
    \A h \in Handles :
        ReadsConstructed(h) =>
            last.result =
                IF ~is_py3k THEN data.val
                ELSE IF handles[h].mode = "bytes"
                    THEN IF rep0 = "text" THEN encode(data.val) ELSE data.val
                ELSE IF rep0 = "text" THEN data.val
                ELSE decode(data.val).val

\* a text source holding a non-ASCII character was read through a bytes handle
C11_Witness ==
    \E h \in Handles :
        /\ ReadsConstructed(h)
        /\ is_py3k /\ rep0 = "text" /\ handles[h].mode = "bytes"
        /\ last.result # data.val

\* the step is a close of writable in-memory handle h, open until then, that
\* returned normally
Commits(h) ==
    /\ Called
    /\ last'.op = "close" /\ last'.h = h /\ last'.exc = "none"
    /\ handles[h].cls \in WrClasses
    /\ ~handles[h].closed

\* C15: the close of a writable in-memory handle commits the whole buffer,
\* read from position 0, wherever writes and seeks left the position: what
\* the source holds afterwards, read in the handle's representation, is the
\* entire buffer the handle held.
C15_CommitsWholeBuffer ==
    [][\A h \in Handles :
          Commits(h) =>
              /\ _convert_data(data', handles[h].mode).exc = "none"
              /\ _convert_data(data', handles[h].mode).val.val = handles[h].buf]_vars

\* a handle was closed with its position behind its one write, in the middle
\* of a buffer of two items, and both items were committed
C15_Witness ==
    \E h \in Handles :
        /\ handles[h].cls \in WrClasses
        /\ handles[h].closed /\ committer = h
        /\ last.op = "close" /\ last.h = h
        /\ handles[h].hist = "w0"
        /\ Len(handles[h].written) = 1
        /\ Len(data.val) >= 2

\* writable handles g and h were open at the same time: handles are numbered
\* by request, and the later one was requested before the earlier one
\* committed
Overlap(g, h) ==
    /\ g < h
    /\ handles[g].cls \in WrClasses /\ handles[h].cls \in WrClasses
    /\ handles[h].after # g

\* C16: two writable handles open at the same time on one mutable in-memory
\* source are independent snapshots: the commit of one leaves the other as
\* it was, buffer included, and the source holds exactly the buffer of the
\* handle that commits, so that after both closes it holds the buffer of the
\* one closed last.
C16_LastCloseWins ==
    [][\A h \in Handles : \A g \in Handles \ {h} :
          (Commits(h) /\ (Overlap(g, h) \/ Overlap(h, g))) =>
              /\ handles'[g] = handles[g]
              /\ _convert_data(data', handles[h].mode).val.val = handles[h].buf]_vars

\* the handle requested first was written and closed first, the other was
\* closed after it without a write: the source holds the second handle's
\* snapshot and the first handle's edit is lost
C16_Witness ==
    /\ Overlap(1, 2)
    /\ handles[1].closed /\ handles[2].closed
    /\ committer = 2
    /\ handles[1].hist = "w0" /\ handles[2].hist = "fresh"
    /\ data.val = handles[2].orig
    /\ data.val # Overwrite(handles[1].orig, 0, handles[1].written)

\* C17: a close of a writable in-memory handle in which the commit callback
\* raises leaves the content of the source as it was, the handle open with
\* its buffer and still holding the callback; every such close invokes the
\* callback, so a later close attempts the commit again.
C17_FailedCommitKeepsHandle ==
    [][\A h \in Handles :
          (/\ Called
           /\ last'.op = "close" /\ last'.h = h /\ last'.exc # "none"
           /\ handles[h].cls \in WrClasses
           /\ ~handles[h].closed) =>
              /\ data' = data
              /\ committer' = committer
              /\ handles'[h].callback
              /\ ~handles'[h].closed
              /\ handles'[h].buf = handles[h].buf
              /\ handles'[h].ncalls = handles[h].ncalls + 1]_vars

\* the second close of a handle whose buffer does not convert raised again
C17_Witness ==
    \E h \in Handles :
        /\ handles[h].cls \in WrClasses
        /\ last.op = "close" /\ last.h = h /\ last.exc = "UnicodeDecodeError"
        /\ handles[h].ncalls = 2
        /\ ~handles[h].closed /\ handles[h].callback

\* the type the named class stores: str for text_data_source, bytes for
\* bytes_data_source
StoredType(name) == IF name = "text_data_source" THEN "text" ELSE "bytes"

\* C12, as claimed: text_data_source raises the type-mismatch error for any
\* initial content that is not text and bytes_data_source for any that is not
\* bytes, and no source is created.
C12_TypedSourcesValidate ==
    /\ (last.op = "text_data_source" /\ last.arg \notin {"text", "str", "unicode"}) =>
           (last.exc = "TypeError" /\ kind = "none")
    /\ (last.op = "bytes_data_source" /\ last.arg \notin {"bytes", "str"}) =>
           (last.exc = "TypeError" /\ kind = "none")

\* C12, amended: under py3k text_data_source raises TypeError for any content
\* that is not a str and bytes_data_source for any that is not bytes, and no
\* source is created; under py2k both names are data_source and take any
\* content.
C12_TypedSourcesValidatePy3k ==
    last.op \in {"text_data_source", "bytes_data_source"} =>
        IF is_py3k /\ last.arg # StoredType(last.op)
            THEN last.exc = "TypeError" /\ kind = "none" /\ data = NoData
        ELSE /\ last.exc = "none"
             /\ kind = "mem" /\ data.rep = last.arg
             /\ srccls = (IF is_py3k THEN last.op ELSE "data_source")

\* text_data_source was handed bytes under py3k and raised
C12_Witness ==
    /\ is_py3k
    /\ last.op = "text_data_source" /\ last.arg = "bytes"
    /\ last.exc = "TypeError"
    /\ kind = "none"

\* how often the call e was made
Count(e) == Cardinality({i \in DOMAIN events : events[i] = e})

\* C13: a test whose method or TestCase has a skip attribute does not run:
\* TestCase.run calls neither setUp, the test method nor tearDown, reports
\* the test by addSkip if the result has that method and by addSuccess
\* otherwise, and reports no failure and no error.
C13_SkippedTestDoesNotRun ==
    (test.mskip # "none" \/ test.cskip # "none") =>
        /\ outcome = [setUp |-> "none", body |-> "none", tearDown |-> "none"]
        /\ Count("setUp") = 0 /\ Count("test") = 0 /\ Count("tearDown") = 0
        /\ Count("addFailure") = 0 /\ Count("addError") = 0
        /\ pc \in {"finally", "done"} =>
               /\ Count("addSkip") = (IF test.addSkip THEN 1 ELSE 0)
               /\ Count("addSuccess") = (IF test.addSkip THEN 0 ELSE 1)
        /\ pc = "done" =>
               events = <<"startTest",
                          IF test.addSkip THEN "addSkip" ELSE "addSuccess",
                          "stopTest">>

\* a test skipped by the attribute of its TestCase ran to the end under a
\* result without addSkip
C13_Witness ==
    /\ pc = "done"
    /\ test.mskip = "none" /\ test.cskip # "none"
    /\ ~test.addSkip
    /\ Count("addSuccess") = 1

\* the test method raised an exception the todo expects
ExpectedFailure ==
    /\ todo # "none"
    /\ outcome.body \in {"AssertionError", "ValueError", "KeyError"}
    /\ Todo_expected(Todo_parse(todo), outcome.body)

\* C14: a test with a todo attribute is expected to fail.  If its body
\* raises an exception the todo expects, the run reports neither addFailure
\* nor addError for the body, only addExpectedFailure if the result has it.
\* If its body succeeds the run is never reported by addSuccess; it is
\* reported by addUnexpectedSuccess if the result has it and as an error
\* under a plain unittest result.
C14_TodoExpectsFailure ==
    (pc = "done" /\ skip = "none" /\ todo # "none") =>
        /\ ExpectedFailure =>
               /\ Count("addFailure") = 0
               /\ Count("addError") = (IF outcome.tearDown = "ValueError" THEN 1 ELSE 0)
               /\ Count("addExpectedFailure") =
                      (IF test.addExpectedFailure THEN 1 ELSE 0)
        /\ outcome.body = "ok" =>
               /\ Count("addSuccess") = 0
               /\ outcome.tearDown = "ok" =>
                      IF test.addUnexpectedSuccess
                          THEN Count("addUnexpectedSuccess") = 1 /\ propagated = "none"
                      ELSE Count("addError") = 1

\* when the call e was made: 0 if it was not
At(e) == IF Count(e) = 0 THEN 0 ELSE CHOOSE i \in DOMAIN events : events[i] = e

\* C18: in every TestCase.run the result gets startTest first and stopTest
\* once, last, on every way out; the test method runs only after setUp
\* returned; tearDown runs once if setUp returned and the test method did
\* not raise KeyboardInterrupt, also when the test method failed, and not at
\* all if setUp raised or the test was skipped by attribute.
C18_RunBrackets ==
    /\ events # <<>> => (events[1] = "startTest" /\ Count("startTest") = 1)
    /\ Count("stopTest") = (IF pc = "done" THEN 1 ELSE 0)
    /\ pc = "done" => events[Len(events)] = "stopTest"
    /\ Count("setUp") <= 1 /\ Count("test") <= 1 /\ Count("tearDown") <= 1
    /\ Count("test") = 1 =>
           (outcome.setUp = "ok" /\ Count("setUp") = 1 /\ At("setUp") < At("test"))
    /\ Count("tearDown") = 1 => (Count("test") = 1 /\ At("test") < At("tearDown"))
    /\ pc = "done" =>
           Count("tearDown") =
               (IF /\ skip = "none"
                   /\ outcome.setUp = "ok"
                   /\ outcome.body # "KeyboardInterrupt"
                   THEN 1 ELSE 0)

\* the test method failed, tearDown ran and raised, and the run ended
C18_Witness ==
    /\ pc = "done"
    /\ outcome.body = "AssertionError"
    /\ outcome.tearDown = "ValueError"
    /\ Count("tearDown") = 1
    /\ events[Len(events)] = "stopTest"

====
